---- MODULE Spec2Model ----
(***************************************************************************)
(* Correlative numbering, permit lifecycle and identity propagation of the *)
(* notarial travel-permit system (src/app.py), as a state machine.         *)
(*                                                                         *)
(* The SQLite store is modelled by three tables: correlativos (one row per *)
(* year), permisos (rows addressed by their AUTOINCREMENT id) and          *)
(* doc_ocultos.  Each Streamlit session is a thread that runs one handler  *)
(* at a time; a handler is split at every point where it closes one        *)
(* database transaction and opens the next, because another session may    *)
(* commit in between.                                                      *)
(*                                                                         *)
(* The wide permisos row is reduced to the columns the properties are      *)
(* about: anio, numero, estado, version, the anulado_* columns,            *)
(* archivo_generado, the document number and legacy mirror of each role,   *)
(* hermanos_json, and one representative content column (destino).         *)
(***************************************************************************)
EXTENDS Integers, Sequences, FiniteSets, TLC

(* ----------------------------- bounds --------------------------------- *)

\* handlers (button clicks, page loads, API calls) a behaviour may start
MaxOps == 3

(* ------------------------- program constants -------------------------- *)

\* get_next_correlativo accepts years in AnioMin..AnioMax
AnioMin == 2000

AnioMax == 2100

\* _norm_doc collapses to digits when at least this many digits are present
DniMinDigitos == 8

Sesiones == {"s1", "s2"}

NADIE == "nadie"

\* date.today().year as the handlers may observe it
Anios == {2025, 2026}

(* --------------------------- text helpers ----------------------------- *)

Digitos == {"0", "1", "2", "3", "4", "5", "6", "7", "8", "9"}

\* str.isdigit on one character
IsDigit(ch) == ch \in Digitos

\* whitespace as str.strip sees it (only the blank occurs in the inputs)
IsSpace(ch) == ch = " "

RECURSIVE LStrip(_)
LStrip(x) == IF x # <<>> /\ IsSpace(Head(x)) THEN LStrip(Tail(x)) ELSE x

RECURSIVE RStrip(_)
RStrip(x) ==
    IF x # <<>> /\ IsSpace(x[Len(x)]) THEN RStrip(SubSeq(x, 1, Len(x) - 1)) ELSE x

\* s(x): (x or "").strip()
Strip(x) == RStrip(LStrip(x))

\* "".join(ch for ch in x if ch.isdigit())
OnlyDigits(x) == SelectSeq(x, IsDigit)

\* SQL REPLACE(col, ' ', '')
SinEspacios(x) == SelectSeq(x, LAMBDA ch : ch # " ")

\* str.upper on one character (the letters that occur in the inputs)
UpperCh(ch) ==
    CASE ch = "a" -> "A" [] ch = "p" -> "P" [] ch = "i" -> "I" [] ch = "g" -> "G"
      [] ch = "r" -> "R" [] ch = "d" -> "D" [] ch = "o" -> "O" [] ch = "e" -> "E"
      [] ch = "s" -> "S" [] OTHER -> ch

\* str.upper
Upper(x) == [i \in 1..Len(x) |-> UpperCh(x[i])]

\* _norm_doc
NormDoc(x) ==
    LET only_digits == OnlyDigits(Strip(x))
    IN  IF Len(only_digits) >= DniMinDigitos THEN only_digits ELSE Strip(x)

(* ------------------------------ inputs -------------------------------- *)

DNI_A == <<"1", "1", "1", "1", "1", "1", "1", "1">>

DNI_B == <<"2", "2", "2", "2", "2", "2", "2", "2">>

\* a passport number that _norm_doc leaves as it is (fewer than 8 digits)
PAS_P == <<"P", "1", "2", "3">>

\* a passport number with a letter and 8 digits: _norm_doc collapses it
PAS_E == <<"E", "1", "1", "1", "1", "1", "1", "1", "1">>

VACIO == <<>>

\* what the form hands to the handlers (vals): one document widget per role
\* feeds both the *_doc_num column and its legacy *_dni mirror (payload)
Formularios ==
    { [valido |-> TRUE, padre_doc |-> DNI_B, madre_doc |-> DNI_B,
       menor_doc |-> PAS_P, hermanos |-> <<[doc_num |-> DNI_A]>>,
       destino |-> <<"L">>],
      [valido |-> TRUE, padre_doc |-> PAS_E, madre_doc |-> DNI_B,
       menor_doc |-> DNI_A, hermanos |-> <<>>, destino |-> <<"C">>],
      [valido |-> FALSE, padre_doc |-> VACIO, madre_doc |-> DNI_B,
       menor_doc |-> DNI_A, hermanos |-> <<>>, destino |-> <<"C">>] }

(* ------------------------------- state -------------------------------- *)

VARIABLES
    correlativos,      \* table correlativos: anio -> numero (domain = rows)
    permisos,          \* table permisos: id -> row (ids 1..Len, never deleted)
    doc_ocultos,       \* table doc_ocultos: set of marker rows
    correlativo_lock,  \* holder of _correlativo_lock
    db_writer,         \* session holding the SQLite write lock in a transaction
    hoy,               \* date.today().year
    pc,                \* where each session's handler stands
    loc,               \* each session's local variables
    ret,               \* result of the handler that finished last
    emitidos,          \* history: numbers returned by get_next_correlativo
    ops                \* handlers started so far

tablas == <<correlativos, permisos, doc_ocultos>>

vars == <<correlativos, permisos, doc_ocultos, correlativo_lock, db_writer,
          hoy, pc, loc, ret, emitidos, ops>>

SinLocales == [op |-> "ninguna"]

\* what a finished handler reports: the operation, the error ("" on
\* success) and the number it returned or announced
Resultado(op, error, n) == [op |-> op, error |-> error, n |-> n]

SinResultado == Resultado("ninguna", "", 0)

Init ==
    /\ correlativos = <<>>
    /\ permisos = <<>>
    /\ doc_ocultos = {}
    /\ correlativo_lock = NADIE
    /\ db_writer = NADIE
    /\ hoy = 2025
    /\ pc = [s \in Sesiones |-> "idle"]
    /\ loc = [s \in Sesiones |-> SinLocales]
    /\ ret = SinResultado
    /\ emitidos = [a \in Anios |-> <<>>]
    /\ ops = 0

\* a handler of session s ends: back to idle with its result
Termina(s, r) ==
    /\ pc' = [pc EXCEPT ![s] = "idle"]
    /\ loc' = [loc EXCEPT ![s] = SinLocales]
    /\ ret' = r

\* a handler of session s moves on to its next transaction
Sigue(s, donde, locales) ==
    /\ pc' = [pc EXCEPT ![s] = donde]
    /\ loc' = [loc EXCEPT ![s] = locales]
    /\ ret' = ret

\* a handler is started
Empieza ==
    /\ ops < MaxOps
    /\ ops' = ops + 1

\* the calendar year advances
CambiaAnio ==
    /\ hoy + 1 \in Anios
    /\ hoy' = hoy + 1
    /\ UNCHANGED <<tablas, correlativo_lock, db_writer, pc, loc, ret, emitidos, ops>>

(* ------------------- get_next_correlativo (issuer) -------------------- *)

\* SELECT numero FROM correlativos WHERE anio = ?  (0 stands for "no row")
NumeroActual(anio) == IF anio \in DOMAIN correlativos THEN correlativos[anio] ELSE 0

\* the lower end of the range not checked
AnioValidoSinMinimo(anio) == anio \in Int /\ anio <= AnioMax

AnioValido(anio) == anio \in Int /\ AnioMin <= anio /\ anio <= AnioMax

\* the increment forgotten: the stored number is handed out again
SiguienteNumeroSinIncremento(row) == IF row = <<>> THEN 1 ELSE row[1]

\* numero = 1 when the year has no row (row = <<>>), row[0] + 1 otherwise
SiguienteNumero(row) == IF row = <<>> THEN 1 ELSE row[1] + 1

\* INSERT / UPDATE of the year's row
EscribeCorrelativo(tabla, anio, numero) ==
    [a \in (DOMAIN tabla) \cup {anio} |-> IF a = anio THEN numero ELSE tabla[a]]

\* get_next_correlativo(anio) called with any argument: anio.valor is the
\* number passed and anio.entero tells whether its type is int
GetNextCorrelativo(s, anio) ==
    /\ pc[s] = "idle"
    /\ Sigue(s, "corr_llamada", [op |-> "emitir", vals |-> <<>>, anio |-> anio, row |-> <<>>])
    /\ Empieza
    /\ UNCHANGED <<tablas, correlativo_lock, db_writer, hoy, emitidos>>

\* the two "raise ValueError" checks at the top of get_next_correlativo
CorrValidar(s) ==
    /\ pc[s] = "corr_llamada"
    /\ IF ~loc[s].anio.entero \/ ~AnioValido(loc[s].anio.valor)
       THEN Termina(s, Resultado("emitir", "ValueError", 0))
       ELSE Sigue(s, "corr_espera", [loc[s] EXCEPT !.anio = @.valor])
    /\ UNCHANGED <<tablas, correlativo_lock, db_writer, hoy, emitidos, ops>>

\* "with _correlativo_lock:" is entered
CorrAdquirir(s) ==
    /\ pc[s] = "corr_espera"
    /\ correlativo_lock = NADIE
    /\ correlativo_lock' = s
    /\ pc' = [pc EXCEPT ![s] = "corr_lock"]
    /\ UNCHANGED <<tablas, db_writer, hoy, loc, ret, emitidos, ops>>

\* "with _correlativo_lock:" entered by a session that runs in a process of
\* its own: the module-level Lock of that process has no other user, so it
\* is free and excludes nobody
CorrAdquirirProceso(s) ==
    /\ pc[s] = "corr_espera"
    /\ pc' = [pc EXCEPT ![s] = "corr_lock"]
    /\ UNCHANGED <<tablas, correlativo_lock, db_writer, hoy, loc, ret, emitidos, ops>>

\* a deferred BEGIN: the transaction starts without the write lock
CorrBeginDiferido(s) ==
    /\ pc[s] = "corr_lock"
    /\ pc' = [pc EXCEPT ![s] = "corr_tx"]
    /\ UNCHANGED <<tablas, correlativo_lock, db_writer, hoy, loc, ret, emitidos, ops>>

\* BEGIN IMMEDIATE takes the database write lock
CorrBegin(s) ==
    /\ pc[s] = "corr_lock"
    /\ db_writer = NADIE
    /\ db_writer' = s
    /\ pc' = [pc EXCEPT ![s] = "corr_tx"]
    /\ UNCHANGED <<tablas, correlativo_lock, hoy, loc, ret, emitidos, ops>>

\* the error of BEGIN IMMEDIATE swallowed: the call goes on without the
\* database write lock
CorrBusySigue(s) ==
    /\ pc[s] = "corr_lock"
    /\ db_writer # NADIE
    /\ pc' = [pc EXCEPT ![s] = "corr_tx"]
    /\ UNCHANGED <<tablas, correlativo_lock, db_writer, hoy, loc, ret, emitidos, ops>>

\* the mutex taken with acquire() and no "with": the exception leaves the
\* function with the mutex still held
CorrBusySinLiberar(s) ==
    /\ pc[s] = "corr_lock"
    /\ db_writer # NADIE
    /\ Termina(s, Resultado(loc[s].op, "OperationalError", 0))
    /\ UNCHANGED <<tablas, correlativo_lock, db_writer, hoy, emitidos, ops>>

\* BEGIN IMMEDIATE while another connection holds the write lock: after
\* busy_timeout sqlite3 raises OperationalError, which leaves both "with"
\* blocks (the mutex is released) and reaches the caller
CorrBusy(s) ==
    /\ pc[s] = "corr_lock"
    /\ db_writer # NADIE
    /\ correlativo_lock' = NADIE
    /\ Termina(s, Resultado(loc[s].op, "OperationalError", 0))
    /\ UNCHANGED <<tablas, db_writer, hoy, emitidos, ops>>

\* SELECT numero ... ; row = cur.fetchone()
CorrLeer(s) ==
    /\ pc[s] = "corr_tx"
    /\ pc' = [pc EXCEPT ![s] = "corr_leido"]
    /\ loc' = [loc EXCEPT ![s] =
                  [@ EXCEPT !.row = IF loc[s].anio \in DOMAIN correlativos
                                    THEN <<correlativos[loc[s].anio]>> ELSE <<>>]]
    /\ UNCHANGED <<tablas, correlativo_lock, db_writer, hoy, ret, emitidos, ops>>

\* INSERT or UPDATE, commit, both locks released, numero returned to the
\* "Nuevo permiso" handler
CorrCommit(s) ==
    /\ pc[s] = "corr_leido"
    /\ LET numero == SiguienteNumero(loc[s].row)
       IN  /\ correlativos' = EscribeCorrelativo(correlativos, loc[s].anio, numero)
           /\ emitidos' = [emitidos EXCEPT ![loc[s].anio] = Append(@, numero)]
           /\ IF loc[s].op = "emitir"
              THEN Termina(s, Resultado("emitir", "", numero))
              ELSE Sigue(s, "gen_emitido", [op |-> "generar", vals |-> loc[s].vals,
                                            anio |-> loc[s].anio, numero |-> numero])
    /\ db_writer' = NADIE
    /\ correlativo_lock' = NADIE
    /\ UNCHANGED <<permisos, doc_ocultos, hoy, ops>>

(* --------------------- permisos table primitives ---------------------- *)

\* columns written by update_permiso; anio and numero are not among them
CamposUpdate ==
    {"estado", "version", "destino", "archivo_generado",
     "anulado_at", "anulado_motivo", "anulado_por",
     "padre_doc_num", "padre_dni", "madre_doc_num", "madre_dni",
     "menor_doc_num", "menor_dni", "hermanos_json"}

\* fetch_permiso_by_id finds a row
Existe(pid) == pid \in DOMAIN permisos

\* fetch_permiso_by_id: the row (read only where Existe(pid))
FetchPermisoById(pid) == permisos[pid]

\* the row save_permiso_registro inserts: estado, version and the anulado_*
\* columns come from its defaults
RegistroNuevo(data) ==
    [anio |-> data.anio, numero |-> data.numero,
     estado |-> "EMITIDO", version |-> 1,
     destino |-> data.destino, archivo_generado |-> data.archivo_generado,
     anulado_at |-> "", anulado_motivo |-> "", anulado_por |-> "",
     padre_doc_num |-> data.padre_doc_num, padre_dni |-> data.padre_dni,
     madre_doc_num |-> data.madre_doc_num, madre_dni |-> data.madre_dni,
     menor_doc_num |-> data.menor_doc_num, menor_dni |-> data.menor_dni,
     hermanos_json |-> data.hermanos_json]

\* the table created without its UNIQUE(anio, numero) constraint
ViolaUniqueSinRestriccion(tabla, anio, numero) == FALSE

\* UNIQUE(anio, numero) would be violated by inserting (anio, numero)
ViolaUnique(tabla, anio, numero) ==
    \E id \in DOMAIN tabla : tabla[id].anio = anio /\ tabla[id].numero = numero

\* numero added to the column list of the UPDATE: callers that do not pass
\* it reset it
UpdatePermisoConNumero(tabla, pid, data) ==
    IF pid \notin DOMAIN tabla THEN tabla
    ELSE [tabla EXCEPT ![pid] =
            [c \in DOMAIN @ |->
                IF c \in CamposUpdate
                THEN (IF c \in DOMAIN data THEN data[c] ELSE "")
                ELSE IF c = "numero" THEN 0 ELSE @[c]]]

\* UPDATE permisos SET <CamposUpdate> WHERE id = ?: every listed column is
\* overwritten with data.get(f, ""); no row matches an unknown id
UpdatePermiso(tabla, pid, data) ==
    IF pid \notin DOMAIN tabla THEN tabla
    ELSE [tabla EXCEPT ![pid] =
            [c \in DOMAIN @ |->
                IF c \in CamposUpdate
                THEN (IF c \in DOMAIN data THEN data[c] ELSE "")
                ELSE @[c]]]

\* a complete data dict for update_permiso built from a form: the content
\* columns of the form, CORREGIDO, version 1, no file, no void columns
DatosDirectos(vals) ==
    [destino |-> vals.destino,
     padre_doc_num |-> vals.padre_doc, padre_dni |-> vals.padre_doc,
     madre_doc_num |-> vals.madre_doc, madre_dni |-> vals.madre_doc,
     menor_doc_num |-> vals.menor_doc, menor_dni |-> vals.menor_doc,
     hermanos_json |-> vals.hermanos,
     archivo_generado |-> "", estado |-> "CORREGIDO", version |-> 1,
     anulado_at |-> "", anulado_motivo |-> "", anulado_por |-> ""]

\* update_permiso(pid, data) called on any id
UpdatePermisoLlamada(s, pid, vals) ==
    /\ pc[s] = "idle"
    /\ Sigue(s, "update_llamada", [op |-> "update", pid |-> pid, data |-> DatosDirectos(vals)])
    /\ Empieza
    /\ UNCHANGED <<tablas, correlativo_lock, db_writer, hoy, emitidos>>

\* its UPDATE ... WHERE id = ? and commit; the function returns None
\* whether or not a row matched
UpdatePermisoEjecuta(s) ==
    /\ pc[s] = "update_llamada"
    /\ db_writer = NADIE
    /\ permisos' = UpdatePermiso(permisos, loc[s].pid, loc[s].data)
    /\ Termina(s, Resultado("update", "", 0))
    /\ UNCHANGED <<correlativos, doc_ocultos, correlativo_lock, db_writer, hoy, emitidos, ops>>

(* ---------------------- "Nuevo permiso" handler ----------------------- *)

\* every form accepted
ValidarValsSiempre(vals) == TRUE

\* ok of validar_vals_para_generar: the list of errors is empty
ValidarValsParaGenerar(vals) == vals.valido

\* validar_vals_para_generar, then get_next_correlativo's own validation
GenValidar(s, vals) ==
    /\ pc[s] = "idle"
    /\ IF ~ValidarValsParaGenerar(vals)
       THEN Termina(s, Resultado("generar", "validacion", 0))
       ELSE /\ IF ~AnioValido(hoy)
               THEN Termina(s, Resultado("generar", "ValueError", 0))
               ELSE Sigue(s, "corr_espera",
                          [op |-> "generar", vals |-> vals, anio |-> hoy, row |-> <<>>])
    /\ Empieza
    /\ UNCHANGED <<tablas, correlativo_lock, db_writer, hoy, emitidos>>

\* verificar_plantilla reports missing variables, render_docx raises, the
\* disk is full or the file comes out corrupt: the handler stops
GenFalla(s) ==
    /\ pc[s] = "gen_emitido"
    /\ Termina(s, Resultado("generar", "documento", loc[s].numero))
    /\ UNCHANGED <<tablas, correlativo_lock, db_writer, hoy, emitidos, ops>>

\* the dict the handler passes to save_permiso_registro
DatosNuevo(l) ==
    [anio |-> l.anio, numero |-> l.numero, destino |-> l.vals.destino,
     archivo_generado |-> [dir |-> "emitidos", anio |-> l.anio,
                           numero |-> l.numero, v |-> 1],
     padre_doc_num |-> l.vals.padre_doc, padre_dni |-> l.vals.padre_doc,
     madre_doc_num |-> l.vals.madre_doc, madre_dni |-> l.vals.madre_doc,
     menor_doc_num |-> l.vals.menor_doc, menor_dni |-> l.vals.menor_doc,
     hermanos_json |-> l.vals.hermanos]

\* save_permiso_registro: INSERT INTO permisos; an IntegrityError is caught
\* by the handler's "except Exception"
GenGuardar(s) ==
    /\ pc[s] = "gen_emitido"
    /\ db_writer = NADIE
    /\ IF ViolaUnique(permisos, loc[s].anio, loc[s].numero)
       THEN /\ permisos' = permisos
            /\ Termina(s, Resultado("generar", "IntegrityError", loc[s].numero))
       ELSE /\ permisos' = Append(permisos, RegistroNuevo(DatosNuevo(loc[s])))
            /\ Termina(s, Resultado("generar", "", loc[s].numero))
    /\ UNCHANGED <<correlativos, doc_ocultos, correlativo_lock, db_writer, hoy, emitidos, ops>>

(* ----------------------- propagar_cambio_doc -------------------------- *)

\* rol.upper() on the role names that occur as inputs
UpperRol(rol) ==
    CASE rol = "padre" -> "PADRE" [] rol = "madre" -> "MADRE"
      [] rol = "menor" -> "MENOR" [] rol = "hermano" -> "HERMANO"
      [] OTHER -> rol

\* the document column and its legacy mirror that propagar_cambio_doc
\* rewrites: PADRE, MADRE, and the final "else" branch for anything else
ColumnasRol(rol) ==
    CASE rol = "PADRE" -> <<"padre_doc_num", "padre_dni">>
      [] rol = "MADRE" -> <<"madre_doc_num", "madre_dni">>
      [] OTHER -> <<"menor_doc_num", "menor_dni">>

\* WHERE REPLACE(doc_num, ' ', '') = ? OR REPLACE(dni, ' ', '') = ?
CoincideDoc(row, cols, old_doc) ==
    \/ SinEspacios(row[cols[1]]) = old_doc
    \/ SinEspacios(row[cols[2]]) = old_doc

\* the UPDATE without its role: every document column of a matching row
\* that holds old_doc is rewritten
ReescribeDocTodos(tabla, cols, old_doc, new_doc) ==
    [id \in DOMAIN tabla |->
        IF CoincideDoc(tabla[id], cols, old_doc)
        THEN [c \in DOMAIN tabla[id] |->
                IF c \in {cols[1], cols[2]} THEN new_doc
                ELSE IF /\ c \in {"padre_doc_num", "padre_dni", "madre_doc_num",
                                  "madre_dni", "menor_doc_num", "menor_dni"}
                        /\ SinEspacios(tabla[id][c]) = old_doc
                THEN new_doc
                ELSE tabla[id][c]]
        ELSE tabla[id]]

\* UPDATE permisos SET doc_num = ?, dni = ? WHERE ...
ReescribeDoc(tabla, cols, old_doc, new_doc) ==
    [id \in DOMAIN tabla |->
        IF CoincideDoc(tabla[id], cols, old_doc)
        THEN [tabla[id] EXCEPT ![cols[1]] = new_doc, ![cols[2]] = new_doc]
        ELSE tabla[id]]

\* cur.rowcount of that UPDATE
FilasCoinciden(tabla, cols, old_doc) ==
    Cardinality({id \in DOMAIN tabla : CoincideDoc(tabla[id], cols, old_doc)})

\* nothing to do: a document is empty or both are the same after _norm_doc
SinCambio(old_doc, new_doc) ==
    NormDoc(old_doc) = <<>> \/ NormDoc(new_doc) = <<>> \/ NormDoc(old_doc) = NormDoc(new_doc)

\* propagar_cambio_doc: the table after the call
PropagarTabla(tabla, rol, old_doc, new_doc) ==
    IF SinCambio(old_doc, new_doc) THEN tabla
    ELSE ReescribeDoc(tabla, ColumnasRol(UpperRol(rol)), NormDoc(old_doc), NormDoc(new_doc))

\* propagar_cambio_doc: the value it returns
PropagarFilas(tabla, rol, old_doc, new_doc) ==
    IF SinCambio(old_doc, new_doc) THEN 0
    ELSE FilasCoinciden(tabla, ColumnasRol(UpperRol(rol)), NormDoc(old_doc))

(* -------------------- "Editar / Re-generar" page --------------------- *)

\* the page loads the selected permit: perm = fetch_permiso_by_id(pid),
\* estado_perm and disabled_form are computed from that read
EditarCargar(s, pid) ==
    /\ pc[s] = "idle"
    /\ Existe(pid)
    /\ Sigue(s, "editar", [op |-> "editar", pid |-> pid, perm |-> FetchPermisoById(pid)])
    /\ Empieza
    /\ UNCHANGED <<tablas, correlativo_lock, db_writer, hoy, emitidos>>

\* estado_perm = str(perm.get("estado", "EMITIDO")).upper()
EstadoPerm(perm) == perm.estado

\* the form never disabled
DisabledFormNunca(perm) == FALSE

\* disabled_form = (estado_perm == "ANULADO")
DisabledForm(perm) == EstadoPerm(perm) = "ANULADO"

\* disabled_regen = (estado_perm == "ANULADO")
DisabledRegen(perm) == EstadoPerm(perm) = "ANULADO"

\* the user leaves the page without pressing a button
EditarSalir(s) ==
    /\ pc[s] = "editar"
    /\ Termina(s, SinResultado)
    /\ UNCHANGED <<tablas, correlativo_lock, db_writer, hoy, emitidos, ops>>

\* data_upd of "Guardar cambios": form values plus the META block taken
\* from the perm read at page load
DatosGuardar(perm, vals) ==
    [destino |-> vals.destino,
     padre_doc_num |-> vals.padre_doc, padre_dni |-> vals.padre_doc,
     madre_doc_num |-> vals.madre_doc, madre_dni |-> vals.madre_doc,
     menor_doc_num |-> vals.menor_doc, menor_dni |-> vals.menor_doc,
     hermanos_json |-> vals.hermanos,
     archivo_generado |-> perm.archivo_generado,
     estado |-> IF EstadoPerm(perm) # "ANULADO" THEN "CORREGIDO" ELSE "ANULADO",
     version |-> perm.version,
     anulado_at |-> perm.anulado_at,
     anulado_motivo |-> perm.anulado_motivo,
     anulado_por |-> perm.anulado_por]

\* old/new document per role as the handler compares them for propagation
DocPreferido(doc_num, dni) == Strip(IF doc_num # <<>> THEN doc_num ELSE dni)

\* the (rol, old, new) calls the handler still has to make to
\* propagar_cambio_doc, in order PADRE, MADRE, MENOR
PendientesPropagar(perm, vals) ==
    LET cand == << <<"PADRE", DocPreferido(perm.padre_doc_num, perm.padre_dni), Strip(vals.padre_doc)>>,
                   <<"MADRE", DocPreferido(perm.madre_doc_num, perm.madre_dni), Strip(vals.madre_doc)>>,
                   <<"MENOR", DocPreferido(perm.menor_doc_num, perm.menor_dni), Strip(vals.menor_doc)>> >>
    IN  SelectSeq(cand, LAMBDA c : c[2] # <<>> /\ c[3] # <<>> /\ c[2] # c[3])

\* "Guardar cambios": guard on disabled_form, validation, update_permiso
Guardar(s, vals, propagar_docs) ==
    /\ pc[s] = "editar"
    /\ IF DisabledForm(loc[s].perm)
       THEN /\ permisos' = permisos
            /\ Termina(s, Resultado("guardar", "anulado", 0))
       ELSE IF ~vals.valido
       THEN /\ permisos' = permisos
            /\ Termina(s, Resultado("guardar", "validacion", 0))
       ELSE /\ db_writer = NADIE
            /\ permisos' = UpdatePermiso(permisos, loc[s].pid, DatosGuardar(loc[s].perm, vals))
            /\ IF propagar_docs /\ PendientesPropagar(loc[s].perm, vals) # <<>>
               THEN Sigue(s, "propagar",
                          [op |-> "guardar", pid |-> loc[s].pid,
                           pendientes |-> PendientesPropagar(loc[s].perm, vals), total |-> 0])
               ELSE Termina(s, Resultado("guardar", "", 0))
    /\ UNCHANGED <<correlativos, doc_ocultos, correlativo_lock, db_writer, hoy, emitidos, ops>>

\* the next propagar_cambio_doc call of "Guardar cambios" (checkbox set)
EditarPropagar(s) ==
    /\ pc[s] = "propagar"
    /\ db_writer = NADIE
    /\ LET c == Head(loc[s].pendientes)
           total == loc[s].total + PropagarFilas(permisos, c[1], c[2], c[3])
       IN  /\ permisos' = PropagarTabla(permisos, c[1], c[2], c[3])
           /\ IF Tail(loc[s].pendientes) = <<>>
              THEN Termina(s, Resultado(loc[s].op, "", total))
              ELSE Sigue(s, "propagar", [loc[s] EXCEPT !.pendientes = Tail(@), !.total = total])
    /\ UNCHANGED <<correlativos, doc_ocultos, correlativo_lock, db_writer, hoy, emitidos, ops>>

\* propagar_cambio_doc(rol, old_doc, new_doc) called on its own: the call is
\* carried out by EditarPropagar as the only pending one
PropagarCambioDoc(s, rol, old_doc, new_doc) ==
    /\ pc[s] = "idle"
    /\ Sigue(s, "propagar", [op |-> "propagar", pid |-> 0,
                             pendientes |-> << <<rol, old_doc, new_doc>> >>, total |-> 0])
    /\ Empieza
    /\ UNCHANGED <<tablas, correlativo_lock, db_writer, hoy, emitidos>>

\* "Re-generar DOCX": guard on disabled_regen, then perm_act = fetch_permiso_by_id
RegenLeer(s) ==
    /\ pc[s] = "editar"
    /\ IF DisabledRegen(loc[s].perm)
       THEN Termina(s, Resultado("regenerar", "anulado", 0))
       ELSE /\ Sigue(s, "regen", [op |-> "regenerar", pid |-> loc[s].pid,
                                  perm_act |-> FetchPermisoById(loc[s].pid)])
    /\ UNCHANGED <<tablas, correlativo_lock, db_writer, hoy, emitidos, ops>>

\* out_name of regenerate_docx_for_permiso
ArchivoRegenerado(permiso) ==
    [dir |-> "base", anio |-> permiso.anio, numero |-> permiso.numero, v |-> permiso.version]

\* perm_act as handed to update_permiso: the row read by RegenLeer with
\* version + 1, the form's destino and parents' documents, the new file, CORREGIDO
DatosRegenerar(perm_act, vals) ==
    LET p1 == [perm_act EXCEPT !.version = @ + 1,
                               !.destino = Strip(vals.destino),
                               !.padre_doc_num = vals.padre_doc,
                               !.madre_doc_num = vals.madre_doc]
    IN  [p1 EXCEPT !.archivo_generado = ArchivoRegenerado(p1),
                   !.estado = "CORREGIDO"]

\* regenerate_docx_for_permiso and update_permiso; when the rendering
\* raises, nothing is written
RegenEscribir(s, vals, falla) ==
    /\ pc[s] = "regen"
    /\ IF falla
       THEN /\ permisos' = permisos
            /\ Termina(s, Resultado("regenerar", "documento", 0))
       ELSE /\ db_writer = NADIE
            /\ permisos' = UpdatePermiso(permisos, loc[s].pid, DatosRegenerar(loc[s].perm_act, vals))
            /\ Termina(s, Resultado("regenerar", "", loc[s].perm_act.version + 1))
    /\ UNCHANGED <<correlativos, doc_ocultos, correlativo_lock, db_writer, hoy, emitidos, ops>>

(* --------------------------- anular_permiso --------------------------- *)

\* the check of the stored state left out
YaAnuladoNunca(perm) == FALSE

\* str(perm.get("estado","")).upper() == "ANULADO"
YaAnulado(perm) == perm.estado = "ANULADO"

\* "Anular definitivamente": the button's guard on estado_perm, then
\* anular_permiso reads the row and refuses a missing or ANULADO permit
AnularLeer(s) ==
    /\ pc[s] = "editar"
    /\ IF EstadoPerm(loc[s].perm) = "ANULADO"
       THEN Termina(s, Resultado("anular", "anulado", 0))
       ELSE IF ~Existe(loc[s].pid)
       THEN Termina(s, Resultado("anular", "no existe", 0))
       ELSE IF YaAnulado(FetchPermisoById(loc[s].pid))
       THEN Termina(s, Resultado("anular", "ya anulado", 0))
       ELSE Sigue(s, "anular", [op |-> "anular", pid |-> loc[s].pid,
                                perm |-> FetchPermisoById(loc[s].pid)])
    /\ UNCHANGED <<tablas, correlativo_lock, db_writer, hoy, emitidos, ops>>

\* data_upd of anular_permiso: the row it read, with the four void columns set
DatosAnular(perm, motivo, usuario) ==
    [perm EXCEPT !.estado = "ANULADO",
                 !.anulado_at = "NOW",
                 !.anulado_motivo = motivo,
                 !.anulado_por = usuario]

\* update_permiso(pid, data_upd)
AnularEscribir(s, motivo, usuario) ==
    /\ pc[s] = "anular"
    /\ db_writer = NADIE
    /\ permisos' = UpdatePermiso(permisos, loc[s].pid, DatosAnular(loc[s].perm, motivo, usuario))
    /\ Termina(s, Resultado("anular", "", 0))
    /\ UNCHANGED <<correlativos, doc_ocultos, correlativo_lock, db_writer, hoy, emitidos, ops>>

\* anular_permiso(pid, motivo, usuario) called on any id
AnularPermiso(s, pid) ==
    /\ pc[s] = "idle"
    /\ Sigue(s, "anular_leer", [op |-> "anular", pid |-> pid])
    /\ Empieza
    /\ UNCHANGED <<tablas, correlativo_lock, db_writer, hoy, emitidos>>

\* anular_permiso: perm = fetch_permiso_by_id(pid) and the two refusals
AnularPermisoLeer(s) ==
    /\ pc[s] = "anular_leer"
    /\ IF ~Existe(loc[s].pid)
       THEN Termina(s, Resultado("anular", "no existe", 0))
       ELSE IF YaAnulado(FetchPermisoById(loc[s].pid))
       THEN Termina(s, Resultado("anular", "ya anulado", 0))
       ELSE Sigue(s, "anular", [op |-> "anular", pid |-> loc[s].pid,
                                perm |-> FetchPermisoById(loc[s].pid)])
    /\ UNCHANGED <<tablas, correlativo_lock, db_writer, hoy, emitidos, ops>>

(* ------------------- doc_ocultos: hide and unhide --------------------- *)

\* (doc_num or "").strip().upper()
DocClave(doc_num) == Upper(Strip(doc_num))

\* is_doc_oculto
IsDocOculto(tabla, rol, doc_num) ==
    /\ UpperRol(rol) # ""
    /\ DocClave(doc_num) # <<>>
    /\ \E m \in tabla : m.rol = UpperRol(rol) /\ m.doc_num = DocClave(doc_num)

\* ocultar_doc: INSERT OR IGNORE under the unique index (rol, doc_num)
OcultarDocTabla(tabla, rol, doc_num, motivo, creado_por) ==
    IF UpperRol(rol) = "" \/ DocClave(doc_num) = <<>> THEN tabla
    ELSE IF \E m \in tabla : m.rol = UpperRol(rol) /\ m.doc_num = DocClave(doc_num)
    THEN tabla
    ELSE tabla \cup {[rol |-> UpperRol(rol), doc_num |-> DocClave(doc_num),
                      motivo |-> Upper(Strip(motivo)),
                      creado_por |-> IF creado_por = "" THEN "USUARIO" ELSE creado_por]}

\* mostrar_doc: DELETE FROM doc_ocultos WHERE rol = ? AND doc_num = ?
MostrarDocTabla(tabla, rol, doc_num) ==
    IF UpperRol(rol) = "" \/ DocClave(doc_num) = <<>> THEN tabla
    ELSE {m \in tabla : ~(m.rol = UpperRol(rol) /\ m.doc_num = DocClave(doc_num))}

\* ocultar_doc called for a listed document
OcultarDoc(s, rol, doc_num, motivo, creado_por) ==
    /\ pc[s] = "idle"
    /\ db_writer = NADIE
    /\ doc_ocultos' = OcultarDocTabla(doc_ocultos, rol, doc_num, motivo, creado_por)
    /\ Termina(s, IF UpperRol(rol) = "" \/ DocClave(doc_num) = <<>>
                  THEN Resultado("ocultar", "falta", 0)
                  ELSE Resultado("ocultar", "", 0))
    /\ Empieza
    /\ UNCHANGED <<correlativos, permisos, correlativo_lock, db_writer, hoy, emitidos>>

\* mostrar_doc called for a listed document
MostrarDoc(s, rol, doc_num) ==
    /\ pc[s] = "idle"
    /\ db_writer = NADIE
    /\ doc_ocultos' = MostrarDocTabla(doc_ocultos, rol, doc_num)
    /\ Termina(s, IF UpperRol(rol) = "" \/ DocClave(doc_num) = <<>>
                  THEN Resultado("mostrar", "falta", 0)
                  ELSE Resultado("mostrar", "", 0))
    /\ Empieza
    /\ UNCHANGED <<correlativos, permisos, correlativo_lock, db_writer, hoy, emitidos>>

(* ------------------------ admin_actualizar_doc ------------------------ *)

RolesValidos == {"PADRE", "MADRE", "MENOR", "HERMANO"}

\* doc = (h.get("doc_num") or h.get("dni") or "").strip()
DocHermano(h) == Strip(h.doc_num)

\* the inner loop of _update_hermano_doc_json over one decoded list
ParcheHermanos(arr, old_n, new_n) ==
    [k \in 1..Len(arr) |->
        IF NormDoc(DocHermano(arr[k])) = old_n
        THEN [arr[k] EXCEPT !.doc_num = new_n]
        ELSE arr[k]]

\* "changed" of that loop
HermanosCambian(arr, old_n) ==
    \E k \in 1..Len(arr) : NormDoc(DocHermano(arr[k])) = old_n

\* SELECT id, hermanos_json FROM permisos WHERE COALESCE(hermanos_json,'') <> ''
\* (json.dumps never stores an empty string, so every row is returned)
FilasHermanos(tabla) == [id \in DOMAIN tabla |-> <<id, tabla[id].hermanos_json>>]

\* the rows of that result, from position desde on, that the loop will patch
PorParchar(rows, desde, old_n) ==
    {k \in desde..Len(rows) : HermanosCambian(rows[k][2], old_n)}

Minimo(S) == CHOOSE x \in S : \A y \in S : x <= y

\* admin_actualizar_doc: validation, then the rewrite for PADRE, MADRE or
\* MENOR in one UPDATE, or the row scan of _update_hermano_doc_json
AdminActualizarDoc(s, rol, old_doc, new_doc) ==
    /\ pc[s] = "idle"
    /\ LET r == UpperRol(rol)
           old_doc_n == NormDoc(old_doc)
           new_doc_n == NormDoc(new_doc)
           l == [op |-> "admin", rol |-> r, old |-> old_doc_n, new |-> new_doc_n,
                 rows |-> <<>>, k |-> 0, filas |-> 0, quitados |-> {}]
       IN  IF r \notin RolesValidos
           THEN /\ permisos' = permisos
                /\ Termina(s, Resultado("admin", "rol", 0))
           ELSE IF old_doc_n = <<>> \/ new_doc_n = <<>>
           THEN /\ permisos' = permisos
                /\ Termina(s, Resultado("admin", "faltan", 0))
           ELSE IF old_doc_n = new_doc_n
           THEN /\ permisos' = permisos
                /\ Termina(s, Resultado("admin", "igual", 0))
           ELSE IF r # "HERMANO"
           THEN /\ db_writer = NADIE
                /\ permisos' = ReescribeDoc(permisos, ColumnasRol(r), old_doc_n, new_doc_n)
                /\ Sigue(s, "admin_oculto",
                         [l EXCEPT !.filas = FilasCoinciden(permisos, ColumnasRol(r), old_doc_n)])
           ELSE /\ permisos' = permisos
                /\ IF SinCambio(old_doc_n, new_doc_n)
                   THEN Sigue(s, "admin_oculto", [l EXCEPT !.filas = 0])
                   ELSE Sigue(s, "admin_hermanos",
                              [l EXCEPT !.rows = FilasHermanos(permisos), !.k = 1, !.filas = 0])
    /\ Empieza
    /\ UNCHANGED <<correlativos, doc_ocultos, correlativo_lock, db_writer, hoy, emitidos>>

\* _update_hermano_doc_json: the loop runs to the next row it has to patch
\* and writes it (autocommit: each UPDATE is its own transaction), or ends
AdminHermanos(s) ==
    /\ pc[s] = "admin_hermanos"
    /\ LET l == loc[s]
           pend == PorParchar(l.rows, l.k, NormDoc(l.old))
       IN  IF pend = {}
           THEN /\ permisos' = permisos
                /\ Sigue(s, "admin_oculto", [l EXCEPT !.rows = <<>>, !.k = 0])
           ELSE /\ db_writer = NADIE
                /\ LET k == Minimo(pend)
                       pid == l.rows[k][1]
                   IN  /\ permisos' = [permisos EXCEPT ![pid].hermanos_json =
                                          ParcheHermanos(l.rows[k][2], NormDoc(l.old), NormDoc(l.new))]
                       /\ Sigue(s, "admin_hermanos", [l EXCEPT !.k = k + 1, !.filas = @ + 1])
    /\ UNCHANGED <<correlativos, doc_ocultos, correlativo_lock, db_writer, hoy, emitidos, ops>>

\* _update_hermano_doc_json run from its SELECT to its last UPDATE with no
\* other session in between: the table it leaves
HermanosTabla(tabla, old_doc, new_doc) ==
    IF SinCambio(old_doc, new_doc) THEN tabla
    ELSE [id \in DOMAIN tabla |->
            [tabla[id] EXCEPT !.hermanos_json =
                ParcheHermanos(@, NormDoc(old_doc), NormDoc(new_doc))]]

\* "afectados" of that run
HermanosFilas(tabla, old_doc, new_doc) ==
    IF SinCambio(old_doc, new_doc) THEN 0
    ELSE Cardinality({id \in DOMAIN tabla :
                        HermanosCambian(tabla[id].hermanos_json, NormDoc(old_doc))})

\* admin_actualizar_doc rejects the call: role, missing or equal documents
AdminRechaza(rol, old_doc, new_doc) ==
    \/ UpperRol(rol) \notin RolesValidos
    \/ NormDoc(old_doc) = <<>> \/ NormDoc(new_doc) = <<>>
    \/ NormDoc(old_doc) = NormDoc(new_doc)

\* admin_actualizar_doc run with no other session in between: the permisos
\* table it leaves
AdminTabla(tabla, rol, old_doc, new_doc) ==
    IF AdminRechaza(rol, old_doc, new_doc) THEN tabla
    ELSE IF UpperRol(rol) = "HERMANO"
    THEN HermanosTabla(tabla, NormDoc(old_doc), NormDoc(new_doc))
    ELSE ReescribeDoc(tabla, ColumnasRol(UpperRol(rol)), NormDoc(old_doc), NormDoc(new_doc))

\* "filas" of that run, the third component of the value returned
AdminFilas(tabla, rol, old_doc, new_doc) ==
    IF AdminRechaza(rol, old_doc, new_doc) THEN 0
    ELSE IF UpperRol(rol) = "HERMANO"
    THEN HermanosFilas(tabla, NormDoc(old_doc), NormDoc(new_doc))
    ELSE FilasCoinciden(tabla, ColumnasRol(UpperRol(rol)), NormDoc(old_doc))

\* "if is_doc_oculto(rol, old_doc_n)": without a marker the call returns
AdminEsOculto(s) ==
    /\ pc[s] = "admin_oculto"
    /\ IF IsDocOculto(doc_ocultos, loc[s].rol, loc[s].old)
       THEN Sigue(s, "admin_mostrar", loc[s])
       ELSE Termina(s, Resultado("admin", "", loc[s].filas))
    /\ UNCHANGED <<tablas, correlativo_lock, db_writer, hoy, emitidos, ops>>

\* mostrar_doc(rol, old_doc_n); quitados is history, not a variable of the
\* code: the marker rows this DELETE removed
AdminMostrar(s) ==
    /\ pc[s] = "admin_mostrar"
    /\ db_writer = NADIE
    /\ doc_ocultos' = MostrarDocTabla(doc_ocultos, loc[s].rol, loc[s].old)
    /\ Sigue(s, "admin_ocultar",
             [loc[s] EXCEPT !.quitados =
                 doc_ocultos \ MostrarDocTabla(doc_ocultos, loc[s].rol, loc[s].old)])
    /\ UNCHANGED <<correlativos, permisos, correlativo_lock, db_writer, hoy, emitidos, ops>>

\* f"Migrado desde {old_doc_n}"
MotivoMigrado(old_doc_n) ==
    <<"M", "i", "g", "r", "a", "d", "o", " ", "d", "e", "s", "d", "e", " ">> \o old_doc_n

\* ocultar_doc(rol, new_doc_n, "Migrado desde ...", creado_por="ADMIN")
AdminOcultar(s) ==
    /\ pc[s] = "admin_ocultar"
    /\ db_writer = NADIE
    /\ doc_ocultos' = OcultarDocTabla(doc_ocultos, loc[s].rol, loc[s].new,
                                      MotivoMigrado(loc[s].old), "ADMIN")
    /\ Termina(s, Resultado("admin", "", loc[s].filas))
    /\ UNCHANGED <<correlativos, permisos, correlativo_lock, db_writer, hoy, emitidos, ops>>

\* the UPDATE of the loop raises (the write lock is held by another
\* connection past busy_timeout): the exception leaves
\* _update_hermano_doc_json and is caught by the outer "except Exception"
\* of admin_actualizar_doc, which returns (False, "Error ...", 0)
AdminHermanosFalla(s) ==
    /\ pc[s] = "admin_hermanos"
    /\ PorParchar(loc[s].rows, loc[s].k, NormDoc(loc[s].old)) # {}
    /\ db_writer # NADIE
    /\ Termina(s, Resultado("admin", "OperationalError", 0))
    /\ UNCHANGED <<tablas, correlativo_lock, db_writer, hoy, emitidos, ops>>

\* mostrar_doc or ocultar_doc raises inside the inner "try" (the write lock
\* is held by another connection past busy_timeout): "except Exception:
\* pass", then the ordinary "return True, ..., filas"
AdminMigraFalla(s) ==
    /\ pc[s] \in {"admin_mostrar", "admin_ocultar"}
    /\ db_writer # NADIE
    /\ Termina(s, Resultado("admin", "", loc[s].filas))
    /\ UNCHANGED <<tablas, correlativo_lock, db_writer, hoy, emitidos, ops>>

(* ---------------- developer panel: counter override ------------------- *)

\* "Actualizar correlativo": INSERT OR REPLACE INTO correlativos for the
\* current year with the value typed in
ActualizarCorrelativo(s, nuevo_valor) ==
    /\ pc[s] = "idle"
    /\ db_writer = NADIE
    /\ correlativos' = EscribeCorrelativo(correlativos, hoy, nuevo_valor)
    /\ Termina(s, Resultado("correlativo", "", nuevo_valor))
    /\ Empieza
    /\ UNCHANGED <<permisos, doc_ocultos, correlativo_lock, db_writer, hoy, emitidos>>

(* ------------------- developer panel: VACUUM -------------------------- *)

\* "Compactar (VACUUM)": the statement takes the database write lock
Vacuum(s) ==
    /\ pc[s] = "idle"
    /\ db_writer = NADIE
    /\ db_writer' = s
    /\ Sigue(s, "vacuum", [op |-> "vacuum"])
    /\ Empieza
    /\ UNCHANGED <<tablas, correlativo_lock, hoy, emitidos>>

\* VACUUM ends and the lock is released
VacuumFin(s) ==
    /\ pc[s] = "vacuum"
    /\ db_writer' = NADIE
    /\ Termina(s, Resultado("vacuum", "", 0))
    /\ UNCHANGED <<tablas, correlativo_lock, hoy, emitidos, ops>>

(* ------------- another process: patch_acomp_list_json.py -------------- *)

OTRO == "otro proceso"

\* cur.execute("UPDATE permisos SET acomp_list_json = '' ..."): the
\* connection opens its implicit transaction and holds the write lock (the
\* column is not one of those modelled)
PatchUpdate ==
    /\ db_writer = NADIE
    /\ db_writer' = OTRO
    /\ UNCHANGED <<tablas, correlativo_lock, hoy, pc, loc, ret, emitidos, ops>>

\* con.commit()
PatchCommit ==
    /\ db_writer = OTRO
    /\ db_writer' = NADIE
    /\ UNCHANGED <<tablas, correlativo_lock, hoy, pc, loc, ret, emitidos, ops>>

Next ==
    \/ CambiaAnio
    \/ \E s \in Sesiones :
         \/ \E vals \in Formularios : GenValidar(s, vals)
         \/ CorrAdquirir(s)
         \/ CorrBegin(s)
         \/ CorrLeer(s)
         \/ CorrCommit(s)
         \/ GenFalla(s)
         \/ GenGuardar(s)
         \/ \E pid \in DOMAIN permisos : EditarCargar(s, pid)
         \/ EditarSalir(s)
         \/ \E vals \in Formularios, propagar_docs \in BOOLEAN : Guardar(s, vals, propagar_docs)
         \/ EditarPropagar(s)
         \/ RegenLeer(s)
         \/ \E vals \in Formularios, falla \in BOOLEAN : RegenEscribir(s, vals, falla)
         \/ AnularLeer(s)
         \/ AnularEscribir(s, "ERROR", "ADMIN")

Spec == Init /\ [][Next]_vars

\* the same machine with the developer panel in use
NextDev ==
    \/ Next
    \/ \E s \in Sesiones, nuevo_valor \in 0..1 : ActualizarCorrelativo(s, nuevo_valor)

SpecDev == Init /\ [][NextDev]_vars

RolesEntrada == {"PADRE", "HERMANO", "TIO"}

DocsEntrada == {DNI_A, DNI_B, PAS_E}

MotivosEntrada == {<<"E">>}

\* the same machine with the administrator's document panel in use
NextAdmin ==
    \/ Next
    \/ \E s \in Sesiones :
         \/ \E rol \in RolesEntrada, old_doc \in DocsEntrada, new_doc \in DocsEntrada :
                AdminActualizarDoc(s, rol, old_doc, new_doc)
         \/ AdminHermanos(s)
         \/ AdminEsOculto(s)
         \/ AdminMostrar(s)
         \/ AdminOcultar(s)
         \/ \E rol \in RolesEntrada, doc \in DocsEntrada, motivo \in MotivosEntrada :
                OcultarDoc(s, rol, doc, motivo, "ANA")
         \/ \E rol \in RolesEntrada, doc \in DocsEntrada : MostrarDoc(s, rol, doc)

SpecAdmin == Init /\ [][NextAdmin]_vars

\* ids a caller may pass: those stored and the next, not yet stored, one
IdsEntrada == 1..(Len(permisos) + 1)

\* arguments a caller may pass to get_next_correlativo: below, inside and
\* above the accepted range, and a value that is not an int
AniosEntrada ==
    {[entero |-> TRUE, valor |-> 1999], [entero |-> TRUE, valor |-> 2026],
     [entero |-> TRUE, valor |-> 2101], [entero |-> FALSE, valor |-> 2026]}

\* the same machine with the storage functions also called directly
NextApi ==
    \/ Next
    \/ \E s \in Sesiones :
         \/ \E pid \in IdsEntrada : AnularPermiso(s, pid)
         \/ AnularPermisoLeer(s)
         \/ \E anio \in AniosEntrada : GetNextCorrelativo(s, anio)
         \/ CorrValidar(s)
         \/ \E pid \in IdsEntrada, vals \in Formularios : UpdatePermisoLlamada(s, pid, vals)
         \/ UpdatePermisoEjecuta(s)

SpecApi == Init /\ [][NextApi]_vars

\* the administrator's panel together with propagar_cambio_doc called
\* directly, for any role
NextProp ==
    \/ NextAdmin
    \/ \E s \in Sesiones, rol \in RolesEntrada, old_doc \in DocsEntrada, new_doc \in DocsEntrada :
            PropagarCambioDoc(s, rol, old_doc, new_doc)

SpecProp == Init /\ [][NextProp]_vars

\* the same machine with a long write (VACUUM) and the busy timeout of
\* BEGIN IMMEDIATE
NextBusy ==
    \/ Next
    \/ \E s \in Sesiones :
         \/ Vacuum(s)
         \/ VacuumFin(s)
         \/ CorrBusy(s)

SpecBusy == Init /\ [][NextBusy]_vars

\* the administrator's panel while a long write (VACUUM, or the patch
\* script run as another process) may hold the write lock
NextAdminBusy ==
    \/ NextAdmin
    \/ PatchUpdate
    \/ PatchCommit
    \/ \E s \in Sesiones :
         \/ Vacuum(s)
         \/ VacuumFin(s)
         \/ CorrBusy(s)
         \/ AdminHermanosFalla(s)
         \/ AdminMigraFalla(s)

SpecAdminBusy == Init /\ [][NextAdminBusy]_vars

\* every session in a process of its own: the handlers of Next, with the
\* mutex private to each process and the busy timeout of BEGIN IMMEDIATE
NextProc ==
    \/ CambiaAnio
    \/ \E s \in Sesiones :
         \/ \E vals \in Formularios : GenValidar(s, vals)
         \/ CorrAdquirirProceso(s)
         \/ CorrBegin(s)
         \/ CorrBusy(s)
         \/ CorrLeer(s)
         \/ CorrCommit(s)
         \/ GenFalla(s)
         \/ GenGuardar(s)
         \/ \E pid \in DOMAIN permisos : EditarCargar(s, pid)
         \/ EditarSalir(s)
         \/ \E vals \in Formularios, propagar_docs \in BOOLEAN : Guardar(s, vals, propagar_docs)
         \/ EditarPropagar(s)
         \/ RegenLeer(s)
         \/ \E vals \in Formularios, falla \in BOOLEAN : RegenEscribir(s, vals, falla)
         \/ AnularLeer(s)
         \/ AnularEscribir(s, "ERROR", "ADMIN")

SpecProc == Init /\ [][NextProc]_vars

\* SpecBusy with the scheduling the runtime gives an issuer: a thread that
\* can take the mutex, open its transaction (or give up on busy_timeout),
\* read, or commit, eventually does so
SpecBusyJusto ==
    /\ SpecBusy
    /\ \A s \in Sesiones :
          /\ WF_vars(CorrAdquirir(s))
          /\ WF_vars(CorrBegin(s) \/ CorrBusy(s))
          /\ WF_vars(CorrLeer(s))
          /\ WF_vars(CorrCommit(s))

(* ============================== claims ================================ *)

\* the step of session s is a successful "Guardar cambios"
GuardarExitoso(s) ==
    /\ pc[s] = "editar"
    /\ \/ pc'[s] = "propagar"
       \/ pc'[s] = "idle" /\ ret'.op = "guardar" /\ ret'.error = ""

\* the step of session s is a successful "Re-generar DOCX" write
RegenExitoso(s) ==
    /\ pc[s] = "regen"
    /\ pc'[s] = "idle" /\ ret'.op = "regenerar" /\ ret'.error = ""

\* the step of session s is the write of a successful anular_permiso
AnularExitoso(s) ==
    /\ pc[s] = "anular"
    /\ pc'[s] = "idle" /\ ret'.op = "anular" /\ ret'.error = ""

\* the numbers of the permits stored for a year
NumerosGuardados(anio) ==
    {permisos[id].numero : id \in {i \in DOMAIN permisos : permisos[i].anio = anio}}

C2_TodoONada ==
    (\A s \in Sesiones : pc[s] = "idle") =>
        \A a \in DOMAIN correlativos : NumerosGuardados(a) = 1..correlativos[a]

\* C3: no two permit rows share (anio, numero), and a handler that tries to
\* persist a permit whose (anio, numero) is already stored fails and leaves
\* the permisos table as it was.
C3_CorrelativoUnico ==
    /\ [](\A i, j \in DOMAIN permisos :
            (permisos[i].anio = permisos[j].anio /\ permisos[i].numero = permisos[j].numero)
                => i = j)
    /\ [][\A s \in Sesiones :
            (/\ pc[s] = "gen_emitido"
             /\ pc'[s] = "idle"
             /\ ret'.error # "documento"
             /\ \E id \in DOMAIN permisos :
                    /\ permisos[id].anio = loc[s].anio
                    /\ permisos[id].numero = loc[s].numero)
                => (permisos' = permisos /\ ret'.error = "IntegrityError")]_vars

\* C3 witness: an insert of an already stored (anio, numero) was attempted
\* and refused.
C3_Testigo ==
    /\ ret.op = "generar" /\ ret.error = "IntegrityError"
    /\ \E id \in DOMAIN permisos : permisos[id].anio = hoy /\ permisos[id].numero = ret.n

\* C4: a stored permit keeps its anio and numero over every step: no edit,
\* regeneration, void or propagation alters them, and no row disappears.
C4_CorrelativoInmutable ==
    [][\A id \in DOMAIN permisos :
          /\ id \in DOMAIN permisos'
          /\ permisos'[id].anio = permisos[id].anio
          /\ permisos'[id].numero = permisos[id].numero]_vars

\* C4 witness: a permit has been regenerated and then voided.
C4_Testigo ==
    \E id \in DOMAIN permisos :
        permisos[id].version >= 2 /\ permisos[id].estado = "ANULADO"

\* C5: once a permit's stored state is ANULADO it stays ANULADO, whichever
\* session commits next.
C5_AnuladoTerminal ==
    [][\A id \in DOMAIN permisos :
          permisos[id].estado = "ANULADO" => permisos'[id].estado = "ANULADO"]_vars

\* C6: a "Guardar cambios" or "Re-generar" call on a permit that was stored
\* as ANULADO when the call read it fails and leaves the permisos table
\* (all fields, version and state) unchanged.
C6_AnuladoSoloLectura ==
    [][\A s \in Sesiones :
          (/\ pc[s] = "editar"
           /\ loc[s].perm.estado = "ANULADO"
           /\ pc'[s] # "editar")
              => /\ permisos' = permisos
                 /\ pc'[s] = "idle"
                 /\ ret'.op \in {"guardar", "regenerar", "anular"} => ret'.error # ""]_vars

\* C6 witness: "Guardar cambios" was refused on a voided permit.
C6_Testigo ==
    /\ ret.op = "guardar" /\ ret.error = "anulado"
    /\ \E id \in DOMAIN permisos : permisos[id].estado = "ANULADO"

\* C7: every successful "Guardar cambios" leaves the permit CORREGIDO and
\* its stored version one higher than before.
C7_EditarIncrementaVersion ==
    [][\A s \in Sesiones :
          GuardarExitoso(s) =>
              /\ permisos'[loc[s].pid].estado = "CORREGIDO"
              /\ permisos'[loc[s].pid].version = permisos[loc[s].pid].version + 1]_vars

\* C8: every successful "Re-generar" leaves the permit CORREGIDO and its
\* stored version one higher than before, so that k of them raise it by k,
\* also when two sessions regenerate at once.
C8_RegenerarIncrementaVersion ==
    [][\A s \in Sesiones :
          RegenExitoso(s) =>
              /\ permisos'[loc[s].pid].estado = "CORREGIDO"
              /\ permisos'[loc[s].pid].version = permisos[loc[s].pid].version + 1]_vars

\* C9: the stored version of a permit never decreases.
C9_VersionNoDecrece ==
    [][\A id \in DOMAIN permisos :
          permisos'[id].version >= permisos[id].version]_vars

\* C10: a successful void changes only estado and the three anulado_*
\* columns of the stored row: version and every other column keep the value
\* that was committed last.
C10_AnularSoloCambiaAnulacion ==
    [][\A s \in Sesiones :
          AnularExitoso(s) =>
              /\ permisos'[loc[s].pid].estado = "ANULADO"
              /\ permisos'[loc[s].pid].anulado_motivo # ""
              /\ permisos'[loc[s].pid].anulado_por # ""
              /\ permisos'[loc[s].pid].anulado_at # ""
              /\ \A c \in DOMAIN permisos[loc[s].pid] \ {"estado", "anulado_at", "anulado_motivo", "anulado_por"} :
                     permisos'[loc[s].pid][c] = permisos[loc[s].pid][c]]_vars

\* the step of session s is the read with which anular_permiso starts
AnularLee(s) ==
    /\ pc[s] \in {"editar", "anular_leer"}
    /\ \/ pc'[s] = "anular"
       \/ pc'[s] = "idle" /\ ret'.op = "anular"

\* C11: a void whose read finds the permit stored as ANULADO, or finds no
\* row for the id, fails and leaves every row of the permisos table (state,
\* anulado_* columns and all other columns) as it was, and adds no row.
C11_AnularRechazado ==
    [][\A s \in Sesiones :
          (/\ AnularLee(s)
           /\ \/ ~Existe(loc[s].pid)
              \/ permisos[loc[s].pid].estado = "ANULADO")
              => /\ pc'[s] = "idle"
                 /\ ret'.error # ""
                 /\ permisos' = permisos]_vars

\* C11 witness: anular_permiso has just refused a permit already ANULADO.
C11_Testigo ==
    /\ ret.op = "anular" /\ ret.error = "ya anulado"
    /\ \E id \in DOMAIN permisos : permisos[id].estado = "ANULADO"

\* C12: every row is inserted as EMITIDO with version 1, and a stored row's
\* estado changes only along EMITIDO -> CORREGIDO, CORREGIDO -> CORREGIDO,
\* EMITIDO -> ANULADO or CORREGIDO -> ANULADO; none returns to EMITIDO.
C12_CicloDeVida ==
    [][/\ \A id \in DOMAIN permisos' \ DOMAIN permisos :
              permisos'[id].estado = "EMITIDO" /\ permisos'[id].version = 1
       /\ \A id \in DOMAIN permisos :
              \/ permisos'[id].estado = permisos[id].estado
              \/ <<permisos[id].estado, permisos'[id].estado>> \in
                     {<<"EMITIDO", "CORREGIDO">>, <<"CORREGIDO", "CORREGIDO">>,
                      <<"EMITIDO", "ANULADO">>, <<"CORREGIDO", "ANULADO">>}]_vars

\* C13: a completed propagation of A -> B for PADRE, MADRE or MENOR leaves
\* B in that role's document column and in its legacy mirror on every row
\* whose normalized document was A, whatever the row's estado, and the
\* admin call returns the number of those rows.
C13_PropagaATodos ==
    [][\A s \in Sesiones :
          /\ (/\ pc[s] = "idle" /\ pc'[s] = "admin_oculto"
              /\ loc'[s].rol \in {"PADRE", "MADRE", "MENOR"})
                 => LET cols == ColumnasRol(loc'[s].rol)
                        tienen == {id \in DOMAIN permisos :
                                      \/ NormDoc(permisos[id][cols[1]]) = loc'[s].old
                                      \/ NormDoc(permisos[id][cols[2]]) = loc'[s].old}
                    IN  /\ \A id \in tienen :
                              /\ permisos'[id][cols[1]] = loc'[s].new
                              /\ permisos'[id][cols[2]] = loc'[s].new
                        /\ loc'[s].filas = Cardinality(tienen)
          /\ (pc[s] = "propagar" /\ loc'[s] # loc[s])
                 => LET c == Head(loc[s].pendientes)
                        cols == ColumnasRol(c[1])
                    IN  \A id \in DOMAIN permisos :
                            (\/ NormDoc(permisos[id][cols[1]]) = NormDoc(c[2])
                             \/ NormDoc(permisos[id][cols[2]]) = NormDoc(c[2]))
                                => /\ permisos'[id][cols[1]] = NormDoc(c[3])
                                   /\ permisos'[id][cols[2]] = NormDoc(c[3])]_vars

\* the permits that hold document a under a role: in the role's document
\* column or its legacy mirror, or in the sibling list for HERMANO
Tienen(tabla, rol, a) ==
    IF rol = "HERMANO"
    THEN {id \in DOMAIN tabla :
            \E k \in 1..Len(tabla[id].hermanos_json) :
                NormDoc(DocHermano(tabla[id].hermanos_json[k])) = NormDoc(a)}
    ELSE {id \in DOMAIN tabla :
            \/ NormDoc(tabla[id][ColumnasRol(rol)[1]]) = NormDoc(a)
            \/ NormDoc(tabla[id][ColumnasRol(rol)[2]]) = NormDoc(a)}

\* C14: on every reachable table, for every role and documents A # B, the
\* admin propagation returns the number of permits holding A under the role,
\* and run again with the same arguments on the table it left it returns 0
\* and leaves the table as it is.
C14_PropagarIdempotente ==
    \A rol \in RolesValidos, a \in DocsEntrada, b \in DocsEntrada :
        ~AdminRechaza(rol, a, b) =>
            LET t1 == AdminTabla(permisos, rol, a, b)
            IN  /\ AdminFilas(permisos, rol, a, b) = Cardinality(Tienen(permisos, rol, a))
                /\ AdminFilas(t1, rol, a, b) = 0
                /\ AdminTabla(t1, rol, a, b) = t1

\* the step leaves the document column and the legacy mirror of father,
\* mother and minor of every row as they were
DocsPrincipalesIguales ==
    \A id \in DOMAIN permisos :
        \A c \in {"padre_doc_num", "padre_dni", "madre_doc_num", "madre_dni",
                  "menor_doc_num", "menor_dni"} :
            permisos'[id][c] = permisos[id][c]

C16_MarcadorMigrado ==
    [][\A s \in Sesiones :
          /\ (pc[s] = "propagar" /\ loc'[s] # loc[s])
                 => LET c == Head(loc[s].pendientes)
                    IN  (IsDocOculto(doc_ocultos, c[1], c[2]) /\ ~SinCambio(c[2], c[3]))
                            => /\ IsDocOculto(doc_ocultos', c[1], c[3])
                               /\ ~IsDocOculto(doc_ocultos', c[1], c[2])
          /\ (pc[s] = "admin_oculto" /\ pc'[s] = "idle")
                 => ~IsDocOculto(doc_ocultos, loc[s].rol, loc[s].old)
          /\ (pc[s] = "admin_mostrar" /\ pc'[s] # pc[s])
                 => ~IsDocOculto(doc_ocultos', loc[s].rol, loc[s].old)
          /\ (pc[s] = "admin_ocultar" /\ pc'[s] # pc[s])
                 => IsDocOculto(doc_ocultos', loc[s].rol, loc[s].new)]_vars

\* C17: the marker that the migration of admin_actualizar_doc stores for
\* (role, B) carries the motivo and the creado_por of the marker it removed
\* from (role, A).
C17_MarcadorConserva ==
    [][\A s \in Sesiones :
          (pc[s] = "admin_ocultar" /\ pc'[s] # pc[s])
              => \A m \in doc_ocultos' \ doc_ocultos :
                     \A q \in loc[s].quitados :
                         m.motivo = q.motivo /\ m.creado_por = q.creado_por]_vars

\* C18: a call of get_next_correlativo whose argument is not an int or
\* lies outside AnioMin..AnioMax ends at once with ValueError and no
\* number, with the correlativos table and both locks untouched; and no
\* counter row ever exists for a year outside the range.
C18_AnioInvalido ==
    /\ [](\A a \in DOMAIN correlativos : AnioMin <= a /\ a <= AnioMax)
    /\ [][\A s \in Sesiones :
            (/\ pc[s] = "corr_llamada" /\ pc'[s] # pc[s]
             /\ \/ ~loc[s].anio.entero
                \/ loc[s].anio.valor < AnioMin
                \/ loc[s].anio.valor > AnioMax)
                => /\ pc'[s] = "idle"
                   /\ ret' = Resultado("emitir", "ValueError", 0)
                   /\ correlativos' = correlativos
                   /\ emitidos' = emitidos
                   /\ correlativo_lock' = correlativo_lock
                   /\ db_writer' = db_writer]_vars

\* C18 witness: a direct call has just been refused with ValueError while a
\* counter row exists.
C18_Testigo ==
    /\ ret.op = "emitir" /\ ret.error = "ValueError"
    /\ DOMAIN correlativos # {}

\* C19: an issuer that finds the database write lock held at its BEGIN
\* IMMEDIATE can always give up, and whenever it moves while the lock is
\* held it ends with OperationalError, no number, the mutex released and
\* the correlativos table and the returned numbers unchanged.
C19_EsperaAcotada ==
    /\ [](\A s \in Sesiones :
            (pc[s] = "corr_lock" /\ db_writer # NADIE) => ENABLED CorrBusy(s))
    /\ [][\A s \in Sesiones :
            (pc[s] = "corr_lock" /\ db_writer # NADIE /\ pc'[s] # pc[s])
                => /\ pc'[s] = "idle"
                   /\ ret'.error = "OperationalError" /\ ret'.n = 0
                   /\ correlativos' = correlativos
                   /\ emitidos' = emitidos
                   /\ correlativo_lock' = NADIE]_vars

\* C19 witness: an issuance has failed on the busy timeout while another
\* session still holds the write lock, and a counter row exists.
C19_Testigo ==
    /\ ret.op = "generar" /\ ret.error = "OperationalError"
    /\ db_writer # NADIE
    /\ DOMAIN correlativos # {}

\* C20: an issuer never waits at the mutex while an issuer of a different
\* year holds it: issuers of different years do not wait for each other.
C20_AniosIndependientes ==
    \A s, t \in Sesiones :
        (pc[s] = "corr_espera" /\ correlativo_lock = t)
            => loc[t].anio = loc[s].anio

\* C21: only a form that passed validation reaches the issuer or the
\* insert, and a "Generar" click refused by validation (a handler that
\* starts and ends in one step with that result) ends at once,
\* leaving the correlativos table, the returned numbers, the permisos table
\* and both locks as they were.
C21_ValidaAntesDeEscribir ==
    /\ [](\A s \in Sesiones : loc[s].op = "generar" => loc[s].vals.valido)
    /\ [][(ops' # ops /\ pc' = pc /\ ret'.op = "generar" /\ ret'.error = "validacion")
                => /\ correlativos' = correlativos
                   /\ emitidos' = emitidos
                   /\ permisos' = permisos
                   /\ ret'.n = 0]_vars

\* C21 witness: a "Generar" click has just been refused by validation
\* while a counter row and a permit exist.
C21_Testigo ==
    /\ ret = Resultado("generar", "validacion", 0)
    /\ DOMAIN correlativos # {}
    /\ permisos # <<>>

C23_SinCambioBenigno ==
    [][/\ \A s \in Sesiones :
            (/\ pc[s] = "propagar" /\ loc'[s] # loc[s]
             /\ SinCambio(Head(loc[s].pendientes)[2], Head(loc[s].pendientes)[3]))
                => /\ permisos' = permisos /\ doc_ocultos' = doc_ocultos
                   /\ IF pc'[s] = "idle"
                      THEN ret'.error = "" /\ ret'.n = loc[s].total
                      ELSE loc'[s].total = loc[s].total
       /\ (ops' # ops /\ pc' = pc /\ ret'.op = "admin")
                => /\ permisos' = permisos /\ doc_ocultos' = doc_ocultos
                   /\ ret'.error \notin {"igual", "faltan"}]_vars

\* C24: when the migration of the marker fails (mostrar_doc or ocultar_doc
\* cannot write), the rewrite already committed stays, and the call returns
\* the rewrite's row count together with an indication that it succeeded
\* only in part.
C24_MigracionFallidaAvisa ==
    [][\A s \in Sesiones :
          (/\ pc[s] \in {"admin_mostrar", "admin_ocultar"}
           /\ db_writer # NADIE
           /\ pc'[s] # pc[s])
              => /\ permisos' = permisos
                 /\ ret'.op = "admin" /\ ret'.n = loc[s].filas
                 /\ ret'.error # ""]_vars

C27_NumeroBajoContador ==
    \A id \in DOMAIN permisos :
        /\ permisos[id].anio \in DOMAIN correlativos
        /\ 1 <= permisos[id].numero
        /\ permisos[id].numero <= correlativos[permisos[id].anio]

\* the step leaves estado and version of every row as they were and adds
\* no row
EstadoVersionIguales ==
    /\ DOMAIN permisos' = DOMAIN permisos
    /\ \A id \in DOMAIN permisos :
          /\ permisos'[id].estado = permisos[id].estado
          /\ permisos'[id].version = permisos[id].version

\* the step leaves every column of every row as it was, except the document
\* column and the legacy mirror of rol
SoloColumnasDe(rol) ==
    \A id \in DOMAIN permisos :
        \A c \in DOMAIN permisos[id] \ {ColumnasRol(rol)[1], ColumnasRol(rol)[2]} :
            permisos'[id][c] = permisos[id][c]

\* C28: no step of a propagation (admin_actualizar_doc, its sibling scan,
\* propagar_cambio_doc) changes the estado or the version of a row, and a
\* step that propagates for PADRE, MADRE or MENOR changes no column but
\* that role's document column and mirror, also on a row where another
\* role holds the same document.
C28_PropagarMarco ==
    [][\A s \in Sesiones :
          /\ (pc[s] = "idle" /\ pc'[s] \in {"admin_oculto", "admin_hermanos"})
                 => /\ EstadoVersionIguales
                    /\ loc'[s].rol \in {"PADRE", "MADRE", "MENOR"} => SoloColumnasDe(loc'[s].rol)
          /\ (pc[s] = "admin_hermanos" /\ loc'[s] # loc[s]) => EstadoVersionIguales
          /\ (pc[s] = "propagar" /\ loc'[s] # loc[s])
                 => /\ EstadoVersionIguales
                    /\ UpperRol(Head(loc[s].pendientes)[1]) \in {"PADRE", "MADRE", "MENOR"}
                          => SoloColumnasDe(UpperRol(Head(loc[s].pendientes)[1]))]_vars

\* C28 witness: an admin propagation has rewritten the father's document
\* of a row whose mother held the same document, and the mother keeps it.
C28_Testigo ==
    /\ ret.op = "admin" /\ ret.error = "" /\ ret.n >= 1
    /\ \E id \in DOMAIN permisos :
          /\ permisos[id].padre_doc_num = DNI_A
          /\ permisos[id].madre_doc_num = DNI_B
          /\ permisos[id].menor_doc_num = PAS_P

\* C29: with every session in its own process (no shared mutex), no two
\* sessions are inside the read-increment-write of get_next_correlativo at
\* once, and no number is returned twice for a year.
C29_UnicoSinMutex ==
    /\ \A s, u \in Sesiones :
          (pc[s] \in {"corr_tx", "corr_leido"} /\ pc[u] \in {"corr_tx", "corr_leido"})
              => s = u
    /\ \A a \in Anios :
          \A i, j \in 1..Len(emitidos[a]) : emitidos[a][i] = emitidos[a][j] => i = j

\* C29 witness: two sessions are past the mutex for the same year at once,
\* one has read the counter inside its transaction and the other stands at
\* BEGIN IMMEDIATE, and a number of that year was returned before.
C29_Testigo ==
    \E s, u \in Sesiones :
        /\ pc[s] = "corr_leido" /\ pc[u] = "corr_lock"
        /\ correlativo_lock = NADIE
        /\ loc[s].anio = loc[u].anio
        /\ emitidos[loc[s].anio] # <<>>

\* a session is inside get_next_correlativo
EnEmision(s) == pc[s] \in {"corr_espera", "corr_lock", "corr_tx", "corr_leido"}

====
